---- MODULE Spec2Model ----
(***************************************************************************)
(* Dependency discovery C interface (clang/tools/libclang/CDependencies.cpp) *)
(*                                                                         *)
(* The model follows one or two caller threads through the entry points    *)
(* clang_experimental_DependencyScannerWorker_getFileDependencies_v3/_v4:  *)
(* input validation, the engine run (module reports and output lookups),   *)
(* the module set handed to the discovery callback, the v3/v4 result, and  *)
(* the dispose routines.  The scanning engine and its consumer live        *)
(* outside CDependencies.cpp; their steps are modelled from the            *)
(* specification of the interface.                                         *)
(***************************************************************************)
EXTENDS Integers, Sequences, FiniteSets, TLC

\* ------------------------------------------------------------------ bounds
MaxReports == 2     \* modules the engine reports during one invocation
MaxLookups == 2     \* output lookups through one OutputLookup (SpecLookup)
MaxCommands == 2    \* compile commands the engine produces for one TU

\* --------------------------------------------------------------- constants
BufferSize == 256   \* SmallVector<char, 256> Buffer(256)

Threads == {1, 2}
UNINIT == "<uninitialized>"

\* Strings that take part in the "name:hash" encoding are sequences of
\* characters; file names and command-line arguments are opaque tokens.
Colon == <<":">>
ModuleIDs ==
  { [ModuleName |-> <<"M">>, ContextHash |-> <<"H", "1">>],
    [ModuleName |-> <<"M">>, ContextHash |-> <<"H", "2">>],
    [ModuleName |-> <<"N">>, ContextHash |-> <<"H", "1">>] }

ModuleOutputKinds ==
  {"ModuleFile", "DependencyFile", "DependencyTargets", "DiagnosticSerializationFile"}
CXDependencyModes == {"CXDependencyMode_Flat", "CXDependencyMode_Full"}

Argv == <<"clang", "a.cpp">>
ArgcChoices == {1, 2}
EngineErrors == {"error: 'a.cpp' file not found"}

\* Identities to encode and decode: a name may itself hold a colon, a
\* context hash, the digits of a hash value, never does.
EncodableIDs ==
  [ModuleName : {<<"M">>, <<"N">>, <<"N", ":", "P">>},
   ContextHash : {<<"H", "1">>, <<"H", "2">>}]

\* Lengths the lookup callback may report: at the buffer size, one above it,
\* and the 300 of the specification's example.
LenChoices == {BufferSize, BufferSize + 1, 300}
PathTokens == {"p", "q"}
CallbackReplies == [ret : LenChoices, val : PathTokens]

\* ----------------------------------------------------------------- helpers
Range(s) == {s[i] : i \in 1..Len(s)}
SeqMap(Op(_), s) == [i \in 1..Len(s) |-> Op(s[i])]

\* ---------------------------------------------------- enum conversions
\* unwrap(CXDependencyMode)
unwrap_FlatAsFull(Format) == "Full"
unwrap(Format) ==
  CASE Format = "CXDependencyMode_Flat" -> "Make"
    [] Format = "CXDependencyMode_Full" -> "Full"

\* wrap(ModuleOutputKind)
wrap(MOK) ==
  CASE MOK = "ModuleFile" -> "CXOutputKind_ModuleFile"
    [] MOK = "DependencyFile" -> "CXOutputKind_Dependencies"
    [] MOK = "DependencyTargets" -> "CXOutputKind_DependenciesTarget"
    [] MOK = "DiagnosticSerializationFile" -> "CXOutputKind_SerializedDiagnostics"

\* MID.ModuleName + ":" + MID.ContextHash
EncodeModuleID_HashFirst(MID) == MID.ContextHash \o Colon \o MID.ModuleName
EncodeModuleID(MID) == MID.ModuleName \o Colon \o MID.ContextHash

\* The split a reader of moduleDeps makes: at the last colon of the string
\* (0 when it has none).
LastColon(s) ==
  CHOOSE k \in 0..Len(s) :
    (k = 0 \/ s[k] = ":") /\ \A j \in (k + 1)..Len(s) : s[j] # ":"
DecodeModuleID(s) ==
  [ModuleName |-> SubSeq(s, 1, LastColon(s) - 1),
   ContextHash |-> SubSeq(s, LastColon(s) + 1, Len(s))]

\* --------------------------------------------------- output-path lookup
\* A std::string built by the lookup: its length, the path the callback
\* wrote, and whether building it read past the end of the buffer.
EmptyString == [len |-> 0, val |-> "", overread |-> FALSE]

\* if (Len > Buffer.size())
RetryNeeded_AtLeast(L, Cap) == L >= Cap
RetryNeeded(L, Cap) == L > Cap

\* static lookupModuleOutput: the invocations of MLO it makes (the capacity
\* handed over and the length returned), the buffer's final capacity and the
\* final Len.  R1 and R2 are the callback's replies to the first and to the
\* second invocation (R2 is unused when no second invocation is made).
lookupModuleOutput(ID, MOK, R1, R2) ==
  LET Invocation(cap, R) ==
        [ModuleName |-> ID.ModuleName, ContextHash |-> ID.ContextHash,
         Kind |-> wrap(MOK), cap |-> cap, ret |-> R.ret]
  IN IF RetryNeeded(R1.ret, BufferSize)
     THEN [calls |-> <<Invocation(BufferSize, R1), Invocation(R1.ret, R2)>>,
           cap |-> R1.ret, Length |-> R2.ret, val |-> R2.val]
     ELSE [calls |-> <<Invocation(BufferSize, R1)>>,
           cap |-> BufferSize, Length |-> R1.ret, val |-> R1.val]

\* return std::string(Buffer.begin(), Len): with Len > Buffer.size() the
\* constructor reads past the buffer, which is undefined: the read either
\* goes through (a string of length Len) or faults.
StringFromBuffer(raw) ==
  IF raw.Length <= raw.cap
  THEN {[crashed |-> FALSE, str |-> [len |-> raw.Length, val |-> raw.val, overread |-> FALSE]]}
  ELSE {[crashed |-> FALSE, str |-> [len |-> raw.Length, val |-> raw.val, overread |-> TRUE]],
        [crashed |-> TRUE, str |-> EmptyString]}

\* if (MOK != ModuleOutputKind::ModuleFile)
BypassesCache_Never(MOK) == FALSE
BypassesCache(MOK) == MOK # "ModuleFile"

\* PCMPaths.insert({ID, ""}).second
InsertedNew_Always(PCM, ID) == TRUE
InsertedNew(PCM, ID) == ID \notin DOMAIN PCM

\* OutputLookup::lookupModuleOutput: the possible outcomes of one call, each
\* with the cache afterwards, the MLO invocations made and the string returned.
OutputLookup_lookupModuleOutput(PCM, ID, MOK, R1, R2) ==
  LET raw == lookupModuleOutput(ID, MOK, R1, R2)
      Uncached(cacheAfter(_)) ==
        {[PCMPaths |-> cacheAfter(o), calls |-> raw.calls, cap |-> raw.cap,
          crashed |-> o.crashed, result |-> o.str] : o \in StringFromBuffer(raw)}
      Keep(o) == PCM
      Store(o) == (ID :> (IF o.crashed THEN EmptyString ELSE o.str)) @@ PCM
  IN IF BypassesCache(MOK)
     THEN Uncached(Keep)
     ELSE IF InsertedNew(PCM, ID)
          THEN Uncached(Store)
          ELSE {[PCMPaths |-> PCM, calls |-> <<>>, cap |-> 0,
                 crashed |-> FALSE, result |-> PCM[ID]]}

\* ------------------------------------------ scanning engine and consumer
\* The module table of the engine: the record the engine reports for a
\* module identity.
EngineModuleDeps(ID) ==
  [ID |-> ID,
   ClangModuleMapFile |-> IF ID.ModuleName = <<"M">> THEN "M.modulemap" ELSE "N.modulemap",
   FileDeps |-> IF ID.ModuleName = <<"M">> THEN <<"m.h">> ELSE <<"n.h", "n2.h">>,
   ClangModuleDeps |->
     IF ID.ModuleName = <<"M">>
     THEN <<[ModuleName |-> <<"N">>, ContextHash |-> <<"H", "1">>]>>
     ELSE <<>>,
   CanonicalCommandLine |-> <<"-cc1", "-emit-module">>]

\* What the engine found for the translation unit itself: its files, and
\* the modules it reported, all imported by the main file.
EngineTU(Modules) ==
  [ContextHash |-> <<"H", "1">>,
   FileDeps |-> IF Modules = <<>> THEN <<"a.h">> ELSE <<"a.h", "b.h">>,
   ClangModuleDeps |-> Modules]

\* The compile commands the engine produced, in its order.
EngineCommands(n) ==
  [I \in 1..n |->
     [Executable |-> IF I = 1 THEN "clang" ELSE "ld",
      Arguments |-> <<"-cc1", "-o">> \o [k \in 1..I |-> "x"]]]

\* The lookup callback of a well-behaved caller: the same reply every time
\* it is asked about a module, longer than the first buffer for one of them.
StubReply(ID) ==
  IF ID.ContextHash = <<"H", "2">>
  THEN [ret |-> 300, val |-> "q"]
  ELSE [ret |-> BufferSize, val |-> "p"]

\* Registry: markSeen(id) is true the first time an identity is seen.
markSeen(Seen, ID) == ID \notin Seen

\* FullDependencyConsumer::getFullDependenciesLegacyDriverCommand
getFullDependenciesLegacyDriverCommand(Discovered, TU, Compilation) ==
  [DiscoveredModules |-> SeqMap(EngineModuleDeps, Discovered),
   FullDeps |->
     [ID |-> [ContextHash |-> TU.ContextHash],
      FileDeps |-> TU.FileDeps,
      ClangModuleDeps |-> TU.ClangModuleDeps,
      DriverCommandLine |->
        Compilation \o [k \in 1..Len(TU.ClangModuleDeps) |-> "-fmodule-file"],
      Commands |-> <<>>]]

\* FullDependencyConsumer::takeFullDependencies
takeFullDependencies(Discovered, TU, NumCommands) ==
  [DiscoveredModules |-> SeqMap(EngineModuleDeps, Discovered),
   FullDeps |->
     [ID |-> [ContextHash |-> TU.ContextHash],
      FileDeps |-> TU.FileDeps,
      ClangModuleDeps |-> TU.ClangModuleDeps,
      DriverCommandLine |-> <<>>,
      Commands |-> EngineCommands(NumCommands)]]

NoFDR ==
  [DiscoveredModules |-> <<>>,
   FullDeps |-> [ID |-> [ContextHash |-> <<>>], FileDeps |-> <<>>,
                 ClangModuleDeps |-> <<>>, DriverCommandLine |-> <<>>,
                 Commands |-> <<>>]]

\* ------------------------------------------------------- materialization
\* getFullDependencies, the body of the loop over MDS->Modules
CXModuleDependencyOf(MD) ==
  [Name |-> MD.ID.ModuleName,
   ContextHash |-> MD.ID.ContextHash,
   ModuleMapPath |-> MD.ClangModuleMapFile,
   FileDeps |-> MD.FileDeps,
   ModuleDeps |-> SeqMap(EncodeModuleID, MD.ClangModuleDeps),
   BuildArguments |-> MD.CanonicalCommandLine]

\* getFullDependencies, the CXModuleDependencySet built from
\* FDR.DiscoveredModules (entry I of the model is Modules[I-1] of the code)
ModuleDependencySetOf_FirstEntry(DM) ==
  [Count |-> Len(DM), Modules |-> [I \in 1..Len(DM) |-> CXModuleDependencyOf(DM[1])]]
ModuleDependencySetOf_OnlyFirst(DM) ==
  [Count |-> 1, Modules |-> <<CXModuleDependencyOf(DM[1])>>]
ModuleDependencySetOf(DM) ==
  [Count |-> Len(DM), Modules |-> [I \in 1..Len(DM) |-> CXModuleDependencyOf(DM[I])]]
NoMDS == [Count |-> 0, Modules |-> <<>>]

\* if (!FDR.DiscoveredModules.empty())
ShouldNotify_MoreThanOne(DM) == Len(DM) > 1
ShouldNotify_Always(DM) == TRUE
ShouldNotify(DM) == Len(DM) > 0

\* the handler of getFileDependencies_v3
FileDependencies_v3_ArgsAfterFirst(FD) ==
  [kind |-> "v3",
   ContextHash |-> FD.ID.ContextHash,
   FileDeps |-> FD.FileDeps,
   ModuleDeps |-> SeqMap(EncodeModuleID, FD.ClangModuleDeps),
   BuildArguments |-> Tail(FD.DriverCommandLine)]
FileDependencies_v3(FD) ==
  [kind |-> "v3",
   ContextHash |-> FD.ID.ContextHash,
   FileDeps |-> FD.FileDeps,
   ModuleDeps |-> SeqMap(EncodeModuleID, FD.ClangModuleDeps),
   BuildArguments |-> FD.DriverCommandLine]

\* the handler of getFileDependencies_v4
FileDependencies_v4_FirstCommand(FD) ==
  [kind |-> "v4",
   NumCommands |-> Len(FD.Commands),
   Commands |->
     [I \in 1..Len(FD.Commands) |->
        [ContextHash |-> FD.ID.ContextHash,
         FileDeps |-> FD.FileDeps,
         ModuleDeps |-> SeqMap(EncodeModuleID, FD.ClangModuleDeps),
         Executable |-> FD.Commands[1].Executable,
         BuildArguments |-> FD.Commands[1].Arguments]]]
FileDependencies_v4(FD) ==
  [kind |-> "v4",
   NumCommands |-> Len(FD.Commands),
   Commands |->
     [I \in 1..Len(FD.Commands) |->
        [ContextHash |-> FD.ID.ContextHash,
         FileDeps |-> FD.FileDeps,
         ModuleDeps |-> SeqMap(EncodeModuleID, FD.ClangModuleDeps),
         Executable |-> FD.Commands[I].Executable,
         BuildArguments |-> FD.Commands[I].Arguments]]]
NullResult == [kind |-> "NULL"]

\* ------------------------------------------------- allocation and disposal
\* One allocation: the structure it belongs to, the record index (0 for the
\* structure itself) and the field holding it.  A string set is one unit,
\* allocated by createSet and released by clang_disposeStringSet.
Alloc(h, I, f) == [h |-> h, I |-> I, f |-> f]
PerRecord(h, n, fields) == {Alloc(h, I, f) : I \in 1..n, f \in fields}

\* new CXModuleDependencySet, new CXModuleDependency[Count] and the fields
\* createDup/createSet fill in
MDS_Allocated(Count) ==
  {Alloc("MDS", 0, "CXModuleDependencySet"), Alloc("MDS", 0, "Modules")}
  \cup PerRecord("MDS", Count,
         {"Name", "ContextHash", "ModuleMapPath", "FileDeps", "ModuleDeps",
          "BuildArguments"})

\* clang_experimental_ModuleDependencySet_dispose
ModuleDependencySet_dispose(Count) ==
  {Alloc("MDS", 0, "CXModuleDependencySet"), Alloc("MDS", 0, "Modules")}
  \cup PerRecord("MDS", Count,
         {"Name", "ContextHash", "ModuleMapPath", "FileDeps", "ModuleDeps"})

\* new CXFileDependencies and its fields
FD_Allocated ==
  {Alloc("v3", 0, "CXFileDependencies")}
  \cup PerRecord("v3", 1, {"ContextHash", "FileDeps", "ModuleDeps", "BuildArguments"})

\* clang_experimental_FileDependencies_dispose
FileDependencies_dispose ==
  {Alloc("v3", 0, "CXFileDependencies")}
  \cup PerRecord("v3", 1, {"ContextHash", "FileDeps", "ModuleDeps"})

\* new CXTranslationUnitCommand[n], the fields of each command and
\* new CXFileDependencies_v4
FD4_Allocated(NumCommands) ==
  {Alloc("v4", 0, "CXFileDependencies_v4"), Alloc("v4", 0, "Commands")}
  \cup PerRecord("v4", NumCommands,
         {"ContextHash", "FileDeps", "ModuleDeps", "Executable", "BuildArguments"})

\* clang_experimental_FileDependencies_dispose_v4
FileDependencies_dispose_v4(NumCommands) ==
  {Alloc("v4", 0, "CXFileDependencies_v4"), Alloc("v4", 0, "Commands")}
  \cup PerRecord("v4", NumCommands,
         {"ContextHash", "FileDeps", "ModuleDeps", "Executable", "BuildArguments"})

\* ------------------------------------------------------ entry validation
NoService == [mode |-> "none", Format |-> "none"]
NullWorker == [mode |-> "none", Format |-> "none"]

\* if (error) *error = ...: the value of the caller's CXString afterwards
WriteError(errNull, Old, Msg) == IF errNull THEN Old ELSE Msg

\* if (error) *error = cxstring::createEmpty();
ClearError_Skipped(errNull, Old) == Old
ClearError(errNull, Old) == WriteError(errNull, Old, "")

\* if (argc < 2 || !argv)
InvalidArgs_Below1(argc, argvNull) == argc < 1 \/ argvNull
InvalidArgs(argc, argvNull) == argc < 2 \/ argvNull

\* getFileDependencies up to its call of getFullDependencies: whether the
\* engine is reached, and the value left in the caller's error string
getFileDependencies(W, argc, argvNull, errNull) ==
  IF W = NullWorker
  THEN [proceed |-> FALSE,
        error |-> WriteError(errNull, UNINIT, "missing CXDependencyScannerWorker")]
  ELSE IF InvalidArgs(argc, argvNull)
  THEN [proceed |-> FALSE,
        error |-> WriteError(errNull, UNINIT, "invalid argc or argv")]
  ELSE LET cleared == ClearError(errNull, UNINIT)
       IN IF W.Format # "Full"
          THEN [proceed |-> FALSE,
                error |-> WriteError(errNull, cleared,
                                     "unsupported CXDependencyMode for this API")]
          ELSE [proceed |-> TRUE, error |-> cleared]

\* if (Result) in getFullDependencies
ResultIsError_Ignored(msg) == FALSE
ResultIsError(msg) == msg # ""

\* *error = ... with error == nullptr is undefined: the store faults, or the
\* call carries on and returns false
NullStoreOutcomes == {"crashed", "idle"}

\* assert(cond): aborts when it fails in a build with assertions, is
\* compiled out otherwise
AssertOutcomes(cond) == IF cond THEN {"pass"} ELSE {"abort", "pass"}

\* --------------------------------------------------------------- state
VARIABLES
  active,          \* the caller threads taking part
  service,         \* per thread: its DependencyScanningService
  worker,          \* per thread: its DependencyScanningWorker
  pc,              \* per thread: where its invocation stands
  call,            \* per thread: the arguments of the current/last invocation
  error,           \* per thread: the caller's CXString behind `error`
  retv,            \* per thread: the result the entry point returned
  engine,          \* per thread: what computeDependencies did
  AlreadySeen,     \* per thread: llvm::StringSet<> AlreadySeen
  Consumer,        \* per thread: the FullDependencyConsumer
  FDR,             \* per thread: FullDependenciesResult FDR
  PCMPaths,        \* per thread: OutputLookup::PCMPaths
  lookups,         \* per thread: calls of OutputLookup::lookupModuleOutput
  lastLookup,      \* per thread: the latest of them
  mfSeen,          \* per thread: first module-file answer per identity
  engineCalls,     \* per thread: calls of computeDependencies, this invocation
  mdcCalls,        \* per thread: calls of MDC, this invocation
  mloCalls,        \* per thread: calls of MLO, this invocation
  handlerCalls,    \* per thread: calls of HandleFullDeps, this invocation
  mdcArg,          \* per thread: the module set handed to MDC
  live,            \* per thread: allocations of this invocation not yet freed
  owned,           \* per thread: structures the caller holds undisposed
  disposed,        \* per thread: structures the caller has disposed
  notifiedBefore   \* per thread: identities earlier invocations on the
                   \* worker handed to MDC

objVars == <<active, service, worker>>
callVars == <<pc, call, error, retv, engine>>
regVars == <<AlreadySeen, Consumer, FDR>>
lookVars == <<PCMPaths, lookups, lastLookup, mfSeen, mloCalls>>
cntVars == <<engineCalls, mdcCalls, handlerCalls>>
heapVars == <<mdcArg, live, owned, disposed>>
vars == <<objVars, callVars, regVars, lookVars, cntVars, heapVars, notifiedBefore>>

EmptyMap == [x \in {} |-> x]
NoCall == [ver |-> "none", W |-> NullWorker, argc |-> 0, argvNull |-> TRUE, errNull |-> TRUE]
NoConsumer == [reports |-> 0, modules |-> <<>>, discovered |-> <<>>]
NoLookup ==
  [ID |-> [ModuleName |-> <<>>, ContextHash |-> <<>>], MOK |-> "none",
   calls |-> <<>>, cap |-> 0, crashed |-> FALSE, result |-> EmptyString,
   repeat |-> FALSE]

Running == \A u \in Threads : pc[u] # "crashed"

\* llvm::StringSet<> AlreadySeen: a local of getFullDependencies, constructed
\* empty whatever an earlier invocation left in its own
NewAlreadySeen_Kept(Left) == Left
NewAlreadySeen(Left) == {}

\* OutputLookup OL(MLOContext, MLO): a local of the entry point; its
\* PCMPaths starts empty and it is the OutputLookup of this invocation alone
NewPCMPaths(Left) == EmptyMap
OutputLookupOf_Shared(t) == 1
OutputLookupOf(t) == t
Compilation(c) == SubSeq(Argv, 1, c.argc)
DeprecatedDriverCommand(c) == c.ver = "v3"

InitFor(T) ==
  /\ active = T
  /\ service = [t \in Threads |-> NoService]
  /\ worker = [t \in Threads |-> NullWorker]
  /\ pc = [t \in Threads |-> "idle"]
  /\ call = [t \in Threads |-> NoCall]
  /\ error = [t \in Threads |-> UNINIT]
  /\ retv = [t \in Threads |-> NullResult]
  /\ engine = [t \in Threads |-> "none"]
  /\ AlreadySeen = [t \in Threads |-> {}]
  /\ Consumer = [t \in Threads |-> NoConsumer]
  /\ FDR = [t \in Threads |-> NoFDR]
  /\ PCMPaths = [t \in Threads |-> EmptyMap]
  /\ lookups = [t \in Threads |-> 0]
  /\ lastLookup = [t \in Threads |-> NoLookup]
  /\ mfSeen = [t \in Threads |-> EmptyMap]
  /\ engineCalls = [t \in Threads |-> 0]
  /\ mdcCalls = [t \in Threads |-> 0]
  /\ mloCalls = [t \in Threads |-> 0]
  /\ handlerCalls = [t \in Threads |-> 0]
  /\ mdcArg = [t \in Threads |-> NoMDS]
  /\ live = [t \in Threads |-> {}]
  /\ owned = [t \in Threads |-> {}]
  /\ disposed = [t \in Threads |-> {}]
  /\ notifiedBefore = [t \in Threads |-> {}]

Init == InitFor({1})

\* ------------------------------------------------- services and workers
\* clang_experimental_DependencyScannerService_create_v0
DependencyScannerService_create(t, Format) ==
  /\ Running /\ t \in active
  /\ service[t] = NoService
  /\ service' = [service EXCEPT ![t] = [mode |-> Format, Format |-> unwrap(Format)]]
  /\ UNCHANGED <<active, worker, callVars, regVars, lookVars, cntVars, heapVars,
                 notifiedBefore>>

\* clang_experimental_DependencyScannerService_dispose_v0 (the caller
\* disposes a service after its worker)
DependencyScannerService_dispose(t) ==
  /\ Running /\ t \in active
  /\ service[t] # NoService /\ worker[t] = NullWorker
  /\ service' = [service EXCEPT ![t] = NoService]
  /\ UNCHANGED <<active, worker, callVars, regVars, lookVars, cntVars, heapVars,
                 notifiedBefore>>

\* clang_experimental_DependencyScannerWorker_create_v0: the worker takes
\* its format from the service
DependencyScannerWorker_create(t) ==
  /\ Running /\ t \in active
  /\ service[t] # NoService /\ worker[t] = NullWorker
  /\ worker' = [worker EXCEPT ![t] = service[t]]
  /\ notifiedBefore' = [notifiedBefore EXCEPT ![t] = {}]
  /\ UNCHANGED <<active, service, callVars, regVars, lookVars, cntVars, heapVars>>

\* clang_experimental_DependencyScannerWorker_dispose_v0
DependencyScannerWorker_dispose(t) ==
  /\ Running /\ t \in active
  /\ worker[t] # NullWorker /\ pc[t] = "idle"
  /\ worker' = [worker EXCEPT ![t] = NullWorker]
  /\ UNCHANGED <<active, service, callVars, regVars, lookVars, cntVars, heapVars,
                 notifiedBefore>>

\* ------------------------------------------------------- one invocation
IDsOf(MDS) == {[ModuleName |-> MDS.Modules[I].Name,
                ContextHash |-> MDS.Modules[I].ContextHash] : I \in 1..MDS.Count}

\* getFileDependencies_v3/_v4 from entry to the call of computeDependencies:
\* OutputLookup OL is constructed, the arguments are validated, AlreadySeen
\* and the consumer are constructed and the engine is started.
Enter(t, c) ==
  LET r == getFileDependencies(c.W, c.argc, c.argvNull, c.errNull)
  IN /\ Running /\ t \in active
     /\ pc[t] = "idle"
     /\ call' = [call EXCEPT ![t] = c]
     /\ error' = [error EXCEPT ![t] = r.error]
     /\ retv' = [retv EXCEPT ![t] = NullResult]
     /\ pc' = [pc EXCEPT ![t] = IF r.proceed THEN "engine" ELSE "idle"]
     /\ engine' = [engine EXCEPT ![t] = IF r.proceed THEN "running" ELSE "none"]
     /\ engineCalls' = [engineCalls EXCEPT ![t] = IF r.proceed THEN 1 ELSE 0]
     /\ AlreadySeen' = [AlreadySeen EXCEPT ![t] = NewAlreadySeen(@)]
     /\ Consumer' = [Consumer EXCEPT ![t] = NoConsumer]
     /\ FDR' = [FDR EXCEPT ![t] = NoFDR]
     /\ PCMPaths' = [PCMPaths EXCEPT ![OutputLookupOf(t)] = NewPCMPaths(@)]
     /\ lookups' = [lookups EXCEPT ![t] = 0]
     /\ lastLookup' = [lastLookup EXCEPT ![t] = NoLookup]
     /\ mfSeen' = [mfSeen EXCEPT ![t] = EmptyMap]
     /\ mdcCalls' = [mdcCalls EXCEPT ![t] = 0]
     /\ mloCalls' = [mloCalls EXCEPT ![t] = 0]
     /\ handlerCalls' = [handlerCalls EXCEPT ![t] = 0]
     /\ notifiedBefore' = [notifiedBefore EXCEPT ![t] = @ \cup IDsOf(mdcArg[t])]
     /\ mdcArg' = [mdcArg EXCEPT ![t] = NoMDS]
     /\ live' = [live EXCEPT ![t] = {}]
     /\ owned' = [owned EXCEPT ![t] = {}]
     /\ disposed' = [disposed EXCEPT ![t] = {}]
     /\ UNCHANGED objVars

getFileDependencies_call(t) ==
  \E ver \in {"v3", "v4"}, W \in {NullWorker, worker[t]}, argc \in ArgcChoices,
     argvNull \in BOOLEAN, errNull \in BOOLEAN :
    Enter(t, [ver |-> ver, W |-> W, argc |-> argc, argvNull |-> argvNull,
              errNull |-> errNull])

\* One call of the LookupOutput lambda, OL.lookupModuleOutput(ID, MOK), with
\* the callback replying R1 and then R2, taking outcome o.
LookupStep(t, ID, MOK, R1, R2, o) ==
  LET n == Len(o.calls)
      isRepeat == MOK = "ModuleFile" /\ ID \in DOMAIN mfSeen[t]
  IN /\ PCMPaths' = [PCMPaths EXCEPT ![OutputLookupOf(t)] = o.PCMPaths]
     /\ mloCalls' = [mloCalls EXCEPT ![t] = @ + n]
     /\ lookups' = [lookups EXCEPT ![t] = @ + 1]
     /\ lastLookup' = [lastLookup EXCEPT ![t] =
          [ID |-> ID, MOK |-> MOK, calls |-> o.calls, cap |-> o.cap,
           crashed |-> o.crashed, result |-> o.result, repeat |-> isRepeat]]
     /\ mfSeen' = [mfSeen EXCEPT ![t] =
          IF MOK # "ModuleFile" \/ o.crashed THEN @
          ELSE IF isRepeat
               THEN [@ EXCEPT ![ID].calls = @ + n]
               ELSE (ID :> [first |-> o.result, calls |-> n]) @@ @]

\* The engine hands a module to the consumer (handleModuleDependency): its
\* module-file path is looked up for its build arguments, and the consumer
\* keeps it as discovered if the Registry has not seen its identity.
EngineReportsModule(t, ID) ==
  /\ Running /\ t \in active
  /\ pc[t] = "engine" /\ Consumer[t].reports < MaxReports
  /\ \E o \in OutputLookup_lookupModuleOutput(PCMPaths[OutputLookupOf(t)], ID,
                                              "ModuleFile",
                                              StubReply(ID), StubReply(ID)) :
       /\ LookupStep(t, ID, "ModuleFile", StubReply(ID), StubReply(ID), o)
       /\ pc' = [pc EXCEPT ![t] = IF o.crashed THEN "crashed" ELSE @]
  /\ AlreadySeen' = [AlreadySeen EXCEPT ![t] = @ \cup {ID}]
  /\ Consumer' = [Consumer EXCEPT ![t] =
       [reports |-> @.reports + 1,
        modules |-> IF ID \in Range(@.modules) THEN @.modules
                    ELSE Append(@.modules, ID),
        discovered |-> IF markSeen(AlreadySeen[t], ID)
                       THEN Append(@.discovered, ID) ELSE @.discovered]]
  /\ UNCHANGED <<objVars, call, error, retv, engine, FDR, cntVars,
                 heapVars, notifiedBefore>>

\* The engine resolves an output path through the LookupOutput lambda, the
\* caller's callback replying as it pleases.
EngineLooksUpOutput(t, ID, MOK, R1, R2) ==
  /\ Running /\ t \in active
  /\ pc[t] = "engine" /\ lookups[t] < MaxLookups
  /\ \E o \in OutputLookup_lookupModuleOutput(PCMPaths[OutputLookupOf(t)], ID, MOK,
                                              R1, R2) :
       /\ LookupStep(t, ID, MOK, R1, R2, o)
       /\ pc' = [pc EXCEPT ![t] = IF o.crashed THEN "crashed" ELSE @]
  /\ UNCHANGED <<objVars, call, error, retv, engine, regVars, cntVars,
                 heapVars, notifiedBefore>>

\* getFullDependencies, the FullDependenciesResult taken from the consumer:
\* the legacy one when DeprecatedDriverCommand is set, else the one with the
\* engine's commands.
ConsumerResult(t, legacy, NumCommands) ==
  LET TU == EngineTU(Consumer[t].modules) IN
  IF legacy
  THEN getFullDependenciesLegacyDriverCommand(
         Consumer[t].discovered, TU, Compilation(call[t]))
  ELSE takeFullDependencies(Consumer[t].discovered, TU, NumCommands)

\* getFullDependencies from the return of computeDependencies to the
\* FullDependenciesResult R: an error is copied to *error and ends the call.
computeDependencies_returns_FDR(t, msg, R) ==
  /\ Running /\ t \in active
  /\ pc[t] = "engine"
  /\ engine' = [engine EXCEPT ![t] = IF msg = "" THEN "ok" ELSE "failed"]
  /\ IF ResultIsError(msg)
     THEN /\ \E out \in IF call[t].errNull THEN NullStoreOutcomes ELSE {"idle"} :
               pc' = [pc EXCEPT ![t] = out]
          /\ error' = [error EXCEPT ![t] = WriteError(call[t].errNull, @, msg)]
          /\ UNCHANGED FDR
     ELSE /\ pc' = [pc EXCEPT ![t] = "discovered"]
          /\ FDR' = [FDR EXCEPT ![t] = R]
          /\ UNCHANGED error
  /\ UNCHANGED <<objVars, call, retv, AlreadySeen, Consumer, lookVars,
                 cntVars, heapVars, notifiedBefore>>

computeDependencies_returns(t, msg, NumCommands) ==
  computeDependencies_returns_FDR(
    t, msg, ConsumerResult(t, DeprecatedDriverCommand(call[t]), NumCommands))

\* getFullDependencies: the module set is built and handed to MDC when
\* modules were discovered.
NotifyDiscovered(t) ==
  LET DM == FDR[t].DiscoveredModules
      MDS == ModuleDependencySetOf(DM)
  IN /\ Running /\ t \in active
     /\ pc[t] = "discovered"
     /\ pc' = [pc EXCEPT ![t] = "handle"]
     /\ IF ShouldNotify(DM)
        THEN /\ mdcArg' = [mdcArg EXCEPT ![t] = MDS]
             /\ mdcCalls' = [mdcCalls EXCEPT ![t] = @ + 1]
             /\ live' = [live EXCEPT ![t] = @ \cup MDS_Allocated(MDS.Count)]
             /\ owned' = [owned EXCEPT ![t] = @ \cup {"MDS"}]
        ELSE UNCHANGED <<mdcArg, mdcCalls, live, owned>>
     /\ UNCHANGED <<objVars, call, error, retv, engine, regVars, lookVars,
                    engineCalls, handlerCalls, disposed, notifiedBefore>>

\* HandleFullDeps(std::move(FDR.FullDeps)) and the return of the entry
\* point: the handler of the entry point asserts its shape, allocates the
\* result and fills it in.
HandleFullDeps(t) ==
  LET FD == FDR[t].FullDeps
      v3 == call[t].ver = "v3"
      shapeOK == IF v3 THEN FD.DriverCommandLine # <<>> ELSE FD.DriverCommandLine = <<>>
      result == IF v3 THEN FileDependencies_v3(FD) ELSE FileDependencies_v4(FD)
      allocs == IF v3 THEN FD_Allocated ELSE FD4_Allocated(Len(FD.Commands))
  IN /\ Running /\ t \in active
     /\ pc[t] = "handle"
     /\ \E a \in AssertOutcomes(shapeOK) :
          IF a = "abort"
          THEN /\ pc' = [pc EXCEPT ![t] = "crashed"]
               /\ UNCHANGED <<retv, handlerCalls, live, owned>>
          ELSE /\ pc' = [pc EXCEPT ![t] = "idle"]
               /\ retv' = [retv EXCEPT ![t] = result]
               /\ handlerCalls' = [handlerCalls EXCEPT ![t] = @ + 1]
               /\ live' = [live EXCEPT ![t] = @ \cup allocs]
               /\ owned' = [owned EXCEPT ![t] = @ \cup {result.kind}]
     /\ UNCHANGED <<objVars, call, error, engine, regVars, lookVars,
                    engineCalls, mdcCalls, mdcArg, disposed, notifiedBefore>>

\* ------------------------------------------------------------- disposal
\* The caller disposes a structure it holds: the routine matching the
\* structure releases what its code releases.
Dispose(t, h) ==
  LET freed == CASE h = "MDS" -> ModuleDependencySet_dispose(mdcArg[t].Count)
                 [] h = "v3" -> FileDependencies_dispose
                 [] h = "v4" -> FileDependencies_dispose_v4(retv[t].NumCommands)
  IN /\ Running /\ t \in active
     /\ h \in owned[t]
     /\ live' = [live EXCEPT ![t] = @ \ freed]
     /\ owned' = [owned EXCEPT ![t] = @ \ {h}]
     /\ disposed' = [disposed EXCEPT ![t] = @ \cup {h}]
     /\ UNCHANGED <<objVars, callVars, regVars, lookVars, cntVars, mdcArg,
                    notifiedBefore>>

\* ---------------------------------------------------------- specifications
Next ==
  \E t \in Threads :
    \/ \E Format \in CXDependencyModes : DependencyScannerService_create(t, Format)
    \/ DependencyScannerService_dispose(t)
    \/ DependencyScannerWorker_create(t)
    \/ DependencyScannerWorker_dispose(t)
    \/ getFileDependencies_call(t)
    \/ \E ID \in ModuleIDs : EngineReportsModule(t, ID)
    \/ \E msg \in EngineErrors \cup {""}, n \in 1..MaxCommands :
         computeDependencies_returns(t, msg, n)
    \/ NotifyDiscovered(t)
    \/ HandleFullDeps(t)
    \/ \E h \in {"MDS", "v3", "v4"} : Dispose(t, h)

Spec == Init /\ [][Next]_vars

\* The threads of T each inside one invocation of an entry point of Vers:
\* the invocation has passed validation on a Full worker, AlreadySeen and
\* the OutputLookup are constructed and the engine is running.
InitEngine(T, Vers) ==
  LET W == [mode |-> "CXDependencyMode_Full", Format |-> unwrap("CXDependencyMode_Full")]
      Call(v) == [ver |-> v, W |-> W, argc |-> 2, argvNull |-> FALSE, errNull |-> FALSE]
  IN /\ active = T
     /\ service = [t \in Threads |-> IF t \in T THEN W ELSE NoService]
     /\ worker = [t \in Threads |-> IF t \in T THEN W ELSE NullWorker]
     /\ pc = [t \in Threads |-> IF t \in T THEN "engine" ELSE "idle"]
     /\ call \in {c \in [Threads -> {NoCall} \cup {Call(v) : v \in Vers}] :
                    \A t \in Threads : c[t] # NoCall <=> t \in T}
     /\ error = [t \in Threads |-> IF t \in T THEN "" ELSE UNINIT]
     /\ retv = [t \in Threads |-> NullResult]
     /\ engine = [t \in Threads |-> IF t \in T THEN "running" ELSE "none"]
     /\ AlreadySeen = [t \in Threads |-> {}]
     /\ Consumer = [t \in Threads |-> NoConsumer]
     /\ FDR = [t \in Threads |-> NoFDR]
     /\ PCMPaths = [t \in Threads |-> EmptyMap]
     /\ lookups = [t \in Threads |-> 0]
     /\ lastLookup = [t \in Threads |-> NoLookup]
     /\ mfSeen = [t \in Threads |-> EmptyMap]
     /\ engineCalls = [t \in Threads |-> IF t \in T THEN 1 ELSE 0]
     /\ mdcCalls = [t \in Threads |-> 0]
     /\ mloCalls = [t \in Threads |-> 0]
     /\ handlerCalls = [t \in Threads |-> 0]
     /\ mdcArg = [t \in Threads |-> NoMDS]
     /\ live = [t \in Threads |-> {}]
     /\ owned = [t \in Threads |-> {}]
     /\ disposed = [t \in Threads |-> {}]
     /\ notifiedBefore = [t \in Threads |-> {}]

\* The OutputLookup of one invocation on its own: the engine of a v4
\* invocation is running, resolving output paths through a callback that
\* may reply anything.
InitLookup == InitEngine({1}, {"v4"})

\* The reply to a second invocation, drawn only when one is made: the same
\* path, with any length reported.
SecondReplies(R1) ==
  IF RetryNeeded(R1.ret, BufferSize)
  THEN [ret : LenChoices, val : {R1.val}]
  ELSE {R1}

NextLookup ==
  \E t \in Threads, ID \in ModuleIDs, MOK \in ModuleOutputKinds,
     R1 \in CallbackReplies :
    \E R2 \in SecondReplies(R1) : EngineLooksUpOutput(t, ID, MOK, R1, R2)

SpecLookup == InitLookup /\ [][NextLookup]_vars

\* The result handlers of the two entry points, given whatever the consumer
\* hands back: FullDependencyConsumer is outside this file, and the
\* handlers assert the shape of its answer instead of relying on it.
ConsumerReturnsEitherShape(t, legacy, NumCommands) ==
  computeDependencies_returns_FDR(t, "", ConsumerResult(t, legacy, NumCommands))

InitHandler == InitEngine({1}, {"v3", "v4"})

NextHandler ==
  \E t \in Threads :
    \/ \E ID \in ModuleIDs : EngineReportsModule(t, ID)
    \/ \E legacy \in BOOLEAN, n \in 1..MaxCommands :
         ConsumerReturnsEitherShape(t, legacy, n)
    \/ NotifyDiscovered(t)
    \/ HandleFullDeps(t)
    \/ \E h \in {"MDS", "v3", "v4"} : Dispose(t, h)

SpecHandler == InitHandler /\ [][NextHandler]_vars

\* Two threads, each creating its own service and worker and making one
\* valid invocation of an entry point, their steps interleaved at will.
ScanStarts(t, ver) ==
  /\ call[t] = NoCall /\ worker[t] # NullWorker
  /\ Enter(t, [ver |-> ver, W |-> worker[t], argc |-> 2, argvNull |-> FALSE,
               errNull |-> FALSE])

InitConcurrent == InitFor(Threads)

NextConcurrent ==
  \E t \in Threads :
    \/ DependencyScannerService_create(t, "CXDependencyMode_Full")
    \/ DependencyScannerWorker_create(t)
    \/ \E ver \in {"v3", "v4"} : ScanStarts(t, ver)
    \/ \E ID \in ModuleIDs : EngineReportsModule(t, ID)
    \/ computeDependencies_returns(t, "", 1)
    \/ NotifyDiscovered(t)
    \/ HandleFullDeps(t)

SpecConcurrent == InitConcurrent /\ [][NextConcurrent]_vars

\* ================================================================ claims
\* The invocation of thread t has returned to its caller.
Returned(t) == pc[t] = "idle" /\ call[t].ver # "none"
\* The invocation of thread t passed validation and its engine run ended
\* without an error: getFileDependencies returned true.
Succeeded(t) == engine[t] = "ok" /\ handlerCalls[t] = 1
InvalidInput(c) == c.W = NullWorker \/ c.argc < 2 \/ c.argvNull
NoCallbacks(t) == engineCalls[t] = 0 /\ mdcCalls[t] = 0 /\ mloCalls[t] = 0
IdentityOf(M) == [ModuleName |-> M.Name, ContextHash |-> M.ContextHash]

\* C1 as stated: over successive scans on one worker a module identity is
\* handed to the discovery callback at most once -- no module set carries an
\* identity that an earlier invocation on the worker already handed over.
C1_NeverReportedAgain ==
  \A t \in Threads : IDsOf(mdcArg[t]) \cap notifiedBefore[t] = {}

\* C1 amended: within one invocation, which is the lifetime of one Registry,
\* the discovery callback is invoked at most once and the module set it gets
\* holds each module identity at most once, however often the engine
\* reported it.
C1_AtMostOncePerRegistry ==
  \A t \in Threads :
    /\ mdcCalls[t] <= 1
    /\ \A I, J \in 1..mdcArg[t].Count :
         I # J => IdentityOf(mdcArg[t].Modules[I]) # IdentityOf(mdcArg[t].Modules[J])

C1_Witness ==
  \E t \in Threads :
    /\ mdcCalls[t] = 1 /\ mdcArg[t].Count = 1
    /\ Consumer[t].reports = 2

\* C2 as stated: a repeated module-file lookup of an identity leaves the
\* callback invoked exactly once in total for it and returns the first
\* answer; every lookup of another kind invokes the callback.
C2_ExactlyOneInvocation ==
  \A t \in Threads :
    LET L == lastLookup[t] IN
    (lookups[t] > 0 /\ ~L.crashed) =>
      /\ (L.MOK = "ModuleFile" /\ L.repeat) =>
            /\ mfSeen[t][L.ID].calls = 1
            /\ L.result = mfSeen[t][L.ID].first
      /\ L.MOK # "ModuleFile" => Len(L.calls) >= 1

\* C2 amended: the callback is invoked during the first module-file lookup
\* of an identity only -- once, or twice when the first reported length
\* exceeds the buffer -- and not at all during a repeated one, which returns
\* the string the first returned; every lookup of another kind invokes the
\* callback.
C2_OneResolution ==
  \A t \in Threads :
    LET L == lastLookup[t] IN
    (lookups[t] > 0 /\ ~L.crashed) =>
      /\ (L.MOK = "ModuleFile" /\ L.repeat) =>
            /\ Len(L.calls) = 0
            /\ mfSeen[t][L.ID].calls \in {1, 2}
            /\ L.result = mfSeen[t][L.ID].first
      /\ (L.MOK = "ModuleFile" /\ ~L.repeat) =>
            /\ Len(L.calls) \in {1, 2}
            /\ Len(L.calls) = 2 <=> L.calls[1].ret > BufferSize
      /\ L.MOK # "ModuleFile" => Len(L.calls) >= 1

C2_Witness ==
  \E t \in Threads :
    /\ lookups[t] = 2 /\ lastLookup[t].repeat
    /\ mfSeen[t][lastLookup[t].ID].calls = 2
    /\ lastLookup[t].result.len = 300

\* C3: an uncached resolution invokes the callback first with a 256-byte
\* buffer, a second time exactly when the first returned length exceeds 256
\* and then with a buffer of exactly that length, never a third time, and
\* the string it returns has the last length the callback returned.
C3_BufferRetry ==
  \A t \in Threads :
    LET L == lastLookup[t]
        n == Len(L.calls)
    IN n > 0 =>
         /\ L.calls[1].cap = 256
         /\ n <= 2
         /\ n = 2 <=> L.calls[1].ret > 256
         /\ n = 2 => L.calls[2].cap = L.calls[1].ret
         /\ ~L.crashed => L.result.len = L.calls[n].ret

C3_Witness ==
  \E t \in Threads :
    LET L == lastLookup[t] IN
    /\ Len(L.calls) = 2 /\ ~L.crashed
    /\ L.calls[1].ret = 300 /\ L.calls[2].cap = 300 /\ L.calls[2].ret = 300
    /\ L.result.len = 300

\* C4: no lookup returns a string longer than the buffer it was built
\* from: a retry that again reports more than its buffer holds is fatal.
C4_NoStringBeyondBuffer ==
  \A t \in Threads :
    LET L == lastLookup[t] IN
    (Len(L.calls) > 0 /\ ~L.crashed) => L.result.len <= L.cap

\* C5: after the matching dispose routine has run on a structure, none of
\* the allocations made for that structure is live.
C5_DisposalTotal ==
  \A t \in Threads : \A a \in live[t] : a.h \notin disposed[t]

\* C6: for a call with an error out-parameter, on return the error string
\* is empty iff the call succeeded, the call succeeded iff a result is
\* returned, and a failure leaves a descriptive error string.
C6_ErrorIffFailure ==
  \A t \in Threads :
    (Returned(t) /\ ~call[t].errNull) =>
      /\ error[t] = "" <=> Succeeded(t)
      /\ Succeeded(t) <=> retv[t] # NullResult
      /\ ~Succeeded(t) => error[t] \notin {"", UNINIT}

C6_Witness ==
  \E t \in Threads :
    /\ Returned(t) /\ ~call[t].errNull
    /\ Succeeded(t) /\ error[t] = "" /\ retv[t] # NullResult

\* C7: an invocation with a missing worker, argc < 2 or a null argv fails
\* without the engine, the discovery callback or the lookup callback ever
\* being invoked.
C7_ValidationBeforeEngine ==
  \A t \in Threads :
    (call[t].ver # "none" /\ InvalidInput(call[t])) =>
      /\ Returned(t) /\ engine[t] = "none"
      /\ NoCallbacks(t) /\ handlerCalls[t] = 0
      /\ retv[t] = NullResult
      /\ ~call[t].errNull => error[t] \notin {"", UNINIT}

C7_Witness ==
  \E t \in Threads :
    /\ Returned(t) /\ call[t].W # NullWorker /\ call[t].W.Format = "Full"
    /\ call[t].argc = 1 /\ ~call[t].argvNull
    /\ error[t] = "invalid argc or argv"

\* C8: a worker of a service created with the Flat mode rejects the call
\* with the unsupported-mode error and without invoking the engine or a
\* callback; only a worker of a Full service reaches the engine.
C8_FlatRejected ==
  \A t \in Threads :
    /\ (call[t].ver # "none" /\ call[t].W.mode = "CXDependencyMode_Flat") =>
         /\ Returned(t) /\ engine[t] = "none"
         /\ NoCallbacks(t) /\ handlerCalls[t] = 0
         /\ retv[t] = NullResult
         /\ (~InvalidInput(call[t]) /\ ~call[t].errNull) =>
              error[t] = "unsupported CXDependencyMode for this API"
    /\ engineCalls[t] > 0 => call[t].W.mode = "CXDependencyMode_Full"

C8_Witness ==
  \E t \in Threads :
    /\ Returned(t) /\ call[t].W.mode = "CXDependencyMode_Flat"
    /\ ~InvalidInput(call[t])
    /\ error[t] = "unsupported CXDependencyMode for this API"

\* C9 as stated: when the engine reports a failure, the discovery callback
\* and the result handler are not invoked, no module set or result is
\* allocated, the entry point returns to its caller with null, and the
\* failure is the error string returned.
C9_EngineFailureReturnsNull ==
  \A t \in Threads :
    engine[t] = "failed" =>
      /\ mdcCalls[t] = 0 /\ handlerCalls[t] = 0
      /\ mdcArg[t] = NoMDS /\ live[t] = {} /\ owned[t] = {}
      /\ Returned(t) /\ retv[t] = NullResult
      /\ ~call[t].errNull => error[t] \in EngineErrors

\* C9 for the calls that pass an error pointer: nothing is notified,
\* handled or allocated after an engine failure, and the call returns null
\* with the failure as its error string.
C9_EngineFailure ==
  \A t \in Threads :
    engine[t] = "failed" =>
      /\ mdcCalls[t] = 0 /\ handlerCalls[t] = 0
      /\ mdcArg[t] = NoMDS /\ live[t] = {} /\ owned[t] = {}
      /\ retv[t] = NullResult
      /\ ~call[t].errNull => (Returned(t) /\ error[t] \in EngineErrors)

C9_Witness ==
  \E t \in Threads :
    /\ engine[t] = "failed" /\ Returned(t) /\ ~call[t].errNull
    /\ error[t] \in EngineErrors /\ retv[t] = NullResult
    /\ Consumer[t].discovered # <<>>

\* C10: the module set handed to the discovery callback lists the newly
\* discovered modules in the scan's order, Count being their number, and the
\* callback has been invoked before the TU result is materialized.
C10_DiscoveryBeforeResult ==
  \A t \in Threads :
    LET D == Consumer[t].discovered IN
    /\ pc[t] \in {"engine", "discovered"} => (handlerCalls[t] = 0 /\ retv[t] = NullResult)
    /\ (handlerCalls[t] > 0 /\ D # <<>>) => mdcCalls[t] = 1
    /\ mdcCalls[t] > 0 =>
         /\ mdcArg[t].Count = Len(D)
         /\ \A I \in 1..Len(D) : IdentityOf(mdcArg[t].Modules[I]) = D[I]

C10_Witness ==
  \E t \in Threads :
    /\ Returned(t) /\ retv[t] # NullResult
    /\ mdcCalls[t] = 1 /\ mdcArg[t].Count = 2

\* C11: a scan in which no module is newly discovered never invokes the
\* discovery callback and allocates no module set, and it still succeeds
\* with the TU result: the engine's file dependencies ("a.h" alone when it
\* reported no module) and no module dependencies.
C11_NoModulesNoCallback ==
  \A t \in Threads :
    (engine[t] = "ok" /\ Consumer[t].discovered = <<>>) =>
      /\ mdcCalls[t] = 0 /\ mdcArg[t] = NoMDS /\ "MDS" \notin owned[t]
      /\ Returned(t) =>
           /\ Succeeded(t) /\ retv[t] # NullResult
           /\ LET R == IF retv[t].kind = "v3" THEN retv[t] ELSE retv[t].Commands[1]
              IN R.FileDeps = <<"a.h">> /\ R.ModuleDeps = <<>>

C11_Witness ==
  \E t \in Threads :
    /\ Returned(t) /\ Succeeded(t) /\ Consumer[t].discovered = <<>>
    /\ retv[t].kind = "v3" /\ retv[t].FileDeps = <<"a.h">>
    /\ retv[t].ModuleDeps = <<>> /\ mdcCalls[t] = 0

\* C12 as stated: the number of discovery callback invocations of a scan is
\* the number N of module identities the scan newly discovered.
C12_OnceForEachIdentity ==
  \A t \in Threads :
    (engine[t] = "ok" /\ pc[t] \in {"handle", "idle"}) =>
      mdcCalls[t] = Len(Consumer[t].discovered)

\* C12 amended: a scan that newly discovered N module identities invokes
\* the discovery callback once when N >= 1 and not at all when N = 0, and
\* the one module set handed over holds N records, record I being identity
\* I of the scan.
C12_OnceWithEveryIdentity ==
  \A t \in Threads :
    LET D == Consumer[t].discovered IN
    (engine[t] = "ok" /\ pc[t] \in {"handle", "idle"}) =>
      /\ mdcCalls[t] = IF Len(D) >= 1 THEN 1 ELSE 0
      /\ mdcArg[t].Count = Len(D)
      /\ Len(mdcArg[t].Modules) = Len(D)
      /\ \A I \in 1..Len(D) : IdentityOf(mdcArg[t].Modules[I]) = D[I]

C12_Witness ==
  \E t \in Threads :
    /\ engine[t] = "ok" /\ pc[t] = "idle"
    /\ Len(Consumer[t].discovered) = 2
    /\ mdcCalls[t] = 1 /\ mdcArg[t].Count = 2
    /\ IdentityOf(mdcArg[t].Modules[1]) # IdentityOf(mdcArg[t].Modules[2])

EncodesExactly(Deps, IDs) ==
  /\ Len(Deps) = Len(IDs)
  /\ \A J \in 1..Len(IDs) :
       /\ Deps[J] = IDs[J].ModuleName \o <<":">> \o IDs[J].ContextHash
       /\ DecodeModuleID(Deps[J]) = IDs[J]

\* C14: the module dependencies of every discovered-module record, of the
\* v3 record and of every v4 command record are the engine's identities
\* encoded as name, colon, context hash, and the encoding of every identity
\* decodes back to it at the last colon.
C14_EncodingRoundTrips ==
  /\ \A ID \in EncodableIDs \cup ModuleIDs :
       /\ EncodesExactly(<<EncodeModuleID(ID)>>, <<ID>>)
       /\ LastColon(EncodeModuleID(ID)) = Len(ID.ModuleName) + 1
  /\ \A t \in Threads :
       /\ \A I \in 1..mdcArg[t].Count :
            EncodesExactly(mdcArg[t].Modules[I].ModuleDeps,
                           FDR[t].DiscoveredModules[I].ClangModuleDeps)
       /\ retv[t].kind = "v3" =>
            EncodesExactly(retv[t].ModuleDeps, FDR[t].FullDeps.ClangModuleDeps)
       /\ retv[t].kind = "v4" =>
            \A I \in 1..retv[t].NumCommands :
              EncodesExactly(retv[t].Commands[I].ModuleDeps,
                             FDR[t].FullDeps.ClangModuleDeps)

C14_Witness ==
  \E t \in Threads :
    /\ retv[t].kind = "v4" /\ retv[t].NumCommands = 2
    /\ Len(retv[t].Commands[2].ModuleDeps) = 2
    /\ DecodeModuleID(retv[t].Commands[2].ModuleDeps[2]) = Consumer[t].modules[2]
    /\ mdcArg[t].Count = 2
    /\ \E I \in 1..2 :
         /\ mdcArg[t].Modules[I].ModuleDeps # <<>>
         /\ DecodeModuleID(mdcArg[t].Modules[I].ModuleDeps[1]) =
              [ModuleName |-> <<"N">>, ContextHash |-> <<"H", "1">>]

\* C15: the seen-set and the module-file cache of an invocation hold only
\* what this invocation put there: both are empty when its engine starts,
\* and whatever earlier invocations on the worker saw or cached, the first
\* report of an identity in this invocation is newly discovered and its
\* first module-file lookup invokes the callback.
C15_FreshPerInvocation ==
  \A t \in Threads :
    LET In == Range(Consumer[t].modules) IN
    /\ AlreadySeen[t] = In
    /\ DOMAIN PCMPaths[t] = In
    /\ (pc[t] = "engine" /\ Consumer[t].reports = 0) =>
         (AlreadySeen[t] = {} /\ PCMPaths[t] = EmptyMap)
    /\ Consumer[t].discovered = Consumer[t].modules
    /\ \A ID \in In : mfSeen[t][ID].calls >= 1

C15_Witness ==
  \E t \in Threads :
    /\ notifiedBefore[t] # {}
    /\ pc[t] = "idle" /\ Succeeded(t)
    /\ Range(Consumer[t].discovered) \cap notifiedBefore[t] # {}
    /\ IDsOf(mdcArg[t]) \cap notifiedBefore[t] # {}
    /\ mloCalls[t] >= 1

\* The invocations of the lookup callback an invocation makes when it runs
\* alone and its engine reports Modules: one for each module, and a second
\* for each whose path does not fit the first buffer.
CallsAlone(Modules) ==
  Len(Modules) +
  Cardinality({I \in 1..Len(Modules) :
                 RetryNeeded(StubReply(Modules[I]).ret, BufferSize)})

\* C16: whatever the other thread does in between, an invocation's seen-set
\* and cache hold its own identities only, and its lookup-callback
\* invocations, its discovery notification and its result are those of the
\* invocation running alone on what its own engine reported.
C16_InterleavingInvisible ==
  \A t \in Threads :
    LET In == Consumer[t].modules
        Alone == ConsumerResult(t, DeprecatedDriverCommand(call[t]), 1)
    IN /\ AlreadySeen[t] = Range(In)
       /\ DOMAIN PCMPaths[t] = Range(In)
       /\ Consumer[t].discovered = In
       /\ mloCalls[t] = CallsAlone(In)
       /\ (engine[t] = "ok" /\ pc[t] \in {"handle", "idle"}) =>
            /\ mdcCalls[t] = IF In = <<>> THEN 0 ELSE 1
            /\ mdcArg[t] = IF In = <<>> THEN NoMDS
                           ELSE ModuleDependencySetOf(Alone.DiscoveredModules)
       /\ (engine[t] = "ok" /\ pc[t] = "idle") =>
            retv[t] = IF call[t].ver = "v3"
                      THEN FileDependencies_v3(Alone.FullDeps)
                      ELSE FileDependencies_v4(Alone.FullDeps)

C16_Witness ==
  /\ pc[1] = "handle" /\ Consumer[1].reports = 2 /\ mdcCalls[1] = 1
  /\ pc[2] = "engine" /\ Consumer[2].reports = 1
  /\ Consumer[2].modules[1] \in Range(Consumer[1].modules)
  /\ mloCalls[2] = 2

\* What the engine found for the translation unit of the scan of thread t.
TUOf(t) == EngineTU(Consumer[t].modules)
EncodedModuleDepsOf(t) ==
  [J \in 1..Len(TUOf(t).ClangModuleDeps) |->
     TUOf(t).ClangModuleDeps[J].ModuleName \o <<":">> \o
     TUOf(t).ClangModuleDeps[J].ContextHash]

\* C17: a v4 result has one command record for each command the engine
\* produced, record I with the executable and the arguments of command I,
\* and every record with the context hash, the file dependencies and the
\* encoded module dependencies of the translation unit.
C17_CommandsVerbatim ==
  \A t \in Threads :
    retv[t].kind = "v4" =>
      \E n \in 1..MaxCommands :
        /\ FDR[t].FullDeps.Commands = EngineCommands(n)
        /\ retv[t].NumCommands = n /\ Len(retv[t].Commands) = n
        /\ \A I \in 1..n :
             LET C == retv[t].Commands[I] IN
             /\ C.Executable = EngineCommands(n)[I].Executable
             /\ C.BuildArguments = EngineCommands(n)[I].Arguments
             /\ C.ContextHash = TUOf(t).ContextHash
             /\ C.FileDeps = TUOf(t).FileDeps
             /\ C.ModuleDeps = EncodedModuleDepsOf(t)

C17_Witness ==
  \E t \in Threads :
    /\ Returned(t) /\ retv[t].kind = "v4" /\ retv[t].NumCommands = 2
    /\ retv[t].Commands[1].Executable = "clang"
    /\ retv[t].Commands[2].Executable = "ld"
    /\ retv[t].Commands[1].BuildArguments # retv[t].Commands[2].BuildArguments
    /\ Len(retv[t].Commands[2].ModuleDeps) = 2

\* C18: a v3 result carries the context hash, the file dependencies and the
\* encoded module dependencies the engine reported for the translation
\* unit, and its build arguments are the legacy driver command line the
\* consumer synthesized, argument for argument.
C18_FaithfulProjection ==
  \A t \in Threads :
    retv[t].kind = "v3" =>
      LET Legacy == getFullDependenciesLegacyDriverCommand(
                      Consumer[t].discovered, TUOf(t), Compilation(call[t]))
      IN /\ retv[t].ContextHash = TUOf(t).ContextHash
         /\ retv[t].FileDeps = TUOf(t).FileDeps
         /\ retv[t].ModuleDeps = EncodedModuleDepsOf(t)
         /\ retv[t].BuildArguments = Legacy.FullDeps.DriverCommandLine
         /\ retv[t].BuildArguments = FDR[t].FullDeps.DriverCommandLine

C18_Witness ==
  \E t \in Threads :
    /\ Returned(t) /\ retv[t].kind = "v3"
    /\ retv[t].FileDeps = <<"a.h", "b.h">>
    /\ Len(retv[t].ModuleDeps) = 2
    /\ Len(retv[t].BuildArguments) = 4
    /\ retv[t].BuildArguments[1] = "clang"

\* C19: a lookup of a kind other than module-file leaves the cache as it
\* was and invokes the callback whatever the cache holds; the first
\* module-file lookup of an identity invokes the callback however many
\* lookups of other kinds came before; and a module-file lookup touches no
\* cache entry but that of its own identity.
C19_OtherKindsBypassCache ==
  [][\A t \in Threads :
       lookups'[t] = lookups[t] + 1 =>
         LET L == lastLookup'[t] IN
         /\ L.MOK # "ModuleFile" =>
              /\ PCMPaths'[t] = PCMPaths[t]
              /\ Len(L.calls) >= 1
         /\ (L.MOK = "ModuleFile" /\ L.ID \notin DOMAIN mfSeen[t]) =>
              Len(L.calls) >= 1
         /\ L.MOK = "ModuleFile" =>
              /\ DOMAIN PCMPaths'[t] = DOMAIN PCMPaths[t] \cup {L.ID}
              /\ \A Other \in DOMAIN PCMPaths[t] \ {L.ID} :
                   PCMPaths'[t][Other] = PCMPaths[t][Other]]_vars

C19_Witness ==
  \E t \in Threads :
    LET L == lastLookup[t] IN
    /\ lookups[t] = 2 /\ L.MOK = "DependencyFile" /\ ~L.crashed
    /\ L.ID \in DOMAIN PCMPaths[t]
    /\ Len(L.calls) = 1
    /\ L.result.val # PCMPaths[t][L.ID].val
    /\ mloCalls[t] = 2

\* "*error = ..." of getFullDependencies has run with error == nullptr: the
\* stores of getFileDependencies are under "if (error)", this one is reached
\* whenever the engine failed.
StoreThroughNull(t) == call[t].errNull /\ engine[t] = "failed"

\* C20: an invocation given a null error pointer never stores through it,
\* never faults, and on every failure returns to its caller with a null
\* result.
C20_ErrorOptional ==
  \A t \in Threads :
    (call[t].ver # "none" /\ call[t].errNull) =>
      /\ ~StoreThroughNull(t)
      /\ pc[t] # "crashed"
      /\ error[t] = UNINIT
      /\ (pc[t] = "idle" /\ ~Succeeded(t)) => retv[t] = NullResult

====
